---- MODULE Spec2Model ----
(***************************************************************************)
(* Model of BBimport.py: the Moodle-XML to Blackboard-Ultra converter.     *)
(*                                                                         *)
(* Python strings are sequences of one-character strings; a run of letters *)
(* that no operation of the program looks into may be written as a single  *)
(* token.  The Python value None and an attribute that was never assigned  *)
(* are the one-element sequences NoneStr and Unset.                        *)
(***************************************************************************)
EXTENDS Integers, Sequences, FiniteSets, TLC

VARIABLES
    dict,       \* main: the list of parsed <question> records
    idx,        \* main: position of the for loop in dict (1-based)
    questions,  \* main: buckets, in insertion order: <<[qtype, qs]>>
    category,   \* main: current category name, NoneStr before any marker
    fs,         \* log of file writes (write_text and writefiles), in order
    pc,         \* main: "loop", "done", "crashed"; "off" outside Spec
    rec,        \* SpecQ: the record a question is constructed from
    obj,        \* SpecQ: result of the constructor, [ok, q]
    line,       \* SpecQ: result of to_BBultra, [ok, line]
    qpc,        \* SpecQ: "new", "built", "failed", "serialized", "raised"
    input,      \* SpecText: argument of _cleanstring
    format,     \* SpecText: format argument of _cleanstring
    output,     \* SpecText: value returned by _cleanstring
    passes      \* SpecText: number of _cleanstring calls made so far

vars == <<dict, idx, questions, category, fs, pc, rec, obj, line, qpc,
          input, format, output, passes>>
mainVars == <<dict, idx, questions, category, fs, pc>>
qVars == <<rec, obj, line, qpc>>
textVars == <<input, format, output, passes>>

----------------------------------------------------------------------------
(* Bounds *)
MaxRecords == 3     \* length of the input list of records
MaxTextLen == 3     \* length of the texts fed to _cleanstring in SpecText
MaxPasses == 2      \* number of successive _cleanstring calls in SpecText
MaxFiles == 2       \* number of file descriptors of a question text
MaxAnswers == 2     \* number of answers / subquestions of a record

----------------------------------------------------------------------------
(* Python values and string primitives *)

NoneStr == <<"None">>
Unset == <<"<unset>">>

Min(S) == CHOOSE x \in S : \A y \in S : x <= y

\* p occurs in s at position i
MatchAt(s, p, i) ==
    /\ i >= 1
    /\ i + Len(p) - 1 <= Len(s)
    /\ \A k \in 1..Len(p) : s[i + k - 1] = p[k]

\* str.find from position i, 0 when absent
Find(s, p, i) ==
    LET P == {j \in i..Len(s) : MatchAt(s, p, j)}
    IN  IF P = {} THEN 0 ELSE Min(P)

Slice(s, a, b) == IF a > b THEN <<>> ELSE SubSeq(s, a, b)

RECURSIVE ReplaceFrom(_, _, _, _, _)
\* the rest of s from position i on, j being the next occurrence of old
ReplaceFrom(s, old, new, i, j) ==
    IF j = 0 THEN Slice(s, i, Len(s))
    ELSE Slice(s, i, j - 1) \o new
           \o ReplaceFrom(s, old, new, j + Len(old), Find(s, old, j + Len(old)))

\* str.replace(old, new), old non-empty
Replace(s, old, new) == ReplaceFrom(s, old, new, 1, Find(s, old, 1))

RECURSIVE SplitFrom(_, _, _, _)
\* the parts of s from position i on, j being the next occurrence of sep
SplitFrom(s, sep, i, j) ==
    IF j = 0 THEN <<Slice(s, i, Len(s))>>
    ELSE <<Slice(s, i, j - 1)>>
           \o SplitFrom(s, sep, j + Len(sep), Find(s, sep, j + Len(sep)))

\* str.split(sep)
Split(s, sep) == SplitFrom(s, sep, 1, Find(s, sep, 1))

RECURSIVE Join(_)
\* ''.join(parts)
Join(parts) == IF parts = <<>> THEN <<>> ELSE Head(parts) \o Join(Tail(parts))

\* leftmost, shortest match of  open(.*?)close  starting at or after i;
\* '.' does not match a newline.  <<0, 0>> when there is none.
Search(s, open, close, i) ==
    LET Ends(p) == {q \in (p + Len(open))..Len(s) :
                      /\ MatchAt(s, close, q)
                      /\ \A k \in (p + Len(open))..(q - 1) : s[k] # "\n"}
        P == {p \in i..Len(s) : MatchAt(s, open, p) /\ Ends(p) # {}}
    IN  IF P = {} THEN <<0, 0>> ELSE <<Min(P), Min(Ends(Min(P)))>>

RECURSIVE SubFrom(_, _, _, _, _, _, _, _)
\* the rest of s from position i on, m being the next match
SubFrom(s, open, close, pre, post, keep, i, m) ==
    IF m[1] = 0 THEN Slice(s, i, Len(s))
    ELSE Slice(s, i, m[1] - 1) \o pre
           \o (IF keep THEN Slice(s, m[1] + Len(open), m[2] - 1) ELSE <<>>) \o post
           \o SubFrom(s, open, close, pre, post, keep, m[2] + Len(close),
                      Search(s, open, close, m[2] + Len(close)))

\* re.sub(open(.*?)close, pre + group(1) + post, s), group dropped if ~keep
ReSub(s, open, close, pre, post, keep) ==
    SubFrom(s, open, close, pre, post, keep, 1, Search(s, open, close, 1))

RECURSIVE FindAllFrom(_, _, _, _)
\* the groups of the matches from m on
FindAllFrom(s, open, close, m) ==
    IF m[1] = 0 THEN <<>>
    ELSE <<Slice(s, m[1] + Len(open), m[2] - 1)>>
           \o FindAllFrom(s, open, close, Search(s, open, close, m[2] + Len(close)))

\* re.findall(open(.*?)close, s)
FindAll(s, open, close) == FindAllFrom(s, open, close, Search(s, open, close, 1))

DD == <<"$", "$">>

\* re.sub(r"^\$(.*?)\$$", '$$' + group(1) + '$$', s): the match starts at
\* the first character, '.' matches no newline, and the final '$' anchor
\* matches at the end of the string or before one trailing newline.
ReSubAnchored(s) ==
    LET n == Len(s)
        Q == {q \in 2..n :
                /\ s[q] = "$"
                /\ \/ q = n
                   \/ q = n - 1 /\ s[n] = "\n"
                /\ \A k \in 2..(q - 1) : s[k] # "\n"}
    IN  IF n >= 2 /\ s[1] = "$" /\ Q # {}
        THEN DD \o Slice(s, 2, Min(Q) - 1) \o DD \o Slice(s, Min(Q) + 1, n)
        ELSE s

----------------------------------------------------------------------------
(* Question._cleanstring *)

PTagOpen == <<"<", "p", " ">>
PTag == <<"<", "p", ">">>
EmptyPar == <<"<", "p", ">", "<", "/", "p", ">">>

CleanHtml(s) ==
    LET o1 == Join(Split(s, <<"\n">>))
        o2 == ReSub(o1, <<"$">>, <<"$">>, DD, DD, TRUE)
        o3 == ReSub(o2, <<"\\", "(">>, <<"\\", ")">>, DD, DD, TRUE)
        o4 == ReSub(o3, <<"\\", "[">>, <<"\\", "]">>, DD, DD, TRUE)
        o5 == ReSub(o4, PTagOpen, <<">">>, PTag, <<>>, FALSE)
    IN  Replace(o5, EmptyPar, <<>>)

cleanstring(s, fmt) ==
    IF s = NoneStr THEN <<>>
    ELSE IF fmt = "html" THEN CleanHtml(s)
    ELSE IF fmt = "moodle_auto_format" THEN ReSubAnchored(s)
    ELSE s

Formats == {"html", "moodle_auto_format", "markdown"}

----------------------------------------------------------------------------
(* Parsed records (the mappings xmltodict returns).                        *)
(* A key that is missing from a mapping has the value Absent; reading it   *)
(* raises KeyError.  A list-or-single field is [kind, items] with kind     *)
(* "absent" (no such element), "single" (one mapping) or "list".           *)
(* A token of more than one character stands for a run of letters that no  *)
(* operation of the program looks into.                                    *)

Absent == <<"<absent>">>

NoField == [kind |-> "absent", items |-> <<>>]
Single(m) == [kind |-> "single", items |-> <<m>>]
List(ms) == [kind |-> "list", items |-> ms]

Digits == {"0", "1", "2", "3", "4", "5", "6", "7", "8", "9"}
DigitVal == [d \in Digits |-> CASE d = "0" -> 0 [] d = "1" -> 1 [] d = "2" -> 2
                                [] d = "3" -> 3 [] d = "4" -> 4 [] d = "5" -> 5
                                [] d = "6" -> 6 [] d = "7" -> 7 [] d = "8" -> 8
                                [] d = "9" -> 9]

RECURSIVE DecVal(_)
DecVal(ds) == IF ds = <<>> THEN 0
              ELSE 10 * DecVal(SubSeq(ds, 1, Len(ds) - 1)) + DigitVal[ds[Len(ds)]]

\* int(s) for s without whitespace, '+' or '_': an optional '-' and digits
PyInt(s) ==
    LET neg == s # <<>> /\ s[1] = "-"
        ds == IF neg THEN Tail(s) ELSE s
    IN  IF ds # <<>> /\ \A k \in 1..Len(ds) : ds[k] \in Digits
        THEN [ok |-> TRUE, val |-> IF neg THEN 0 - DecVal(ds) ELSE DecVal(ds)]
        ELSE [ok |-> FALSE, val |-> 0]

\* float(s) > 0 for s of the shape -?digits(.digits)?; ok is FALSE when
\* float(s) raises
PyFloatPositive(s) ==
    LET neg == s # <<>> /\ s[1] = "-"
        ds == IF neg THEN Tail(s) ELSE s
        dots == {k \in 1..Len(ds) : ds[k] = "."}
        wellformed == /\ Len(ds) > Cardinality(dots)
                      /\ Cardinality(dots) <= 1
                      /\ \A k \in 1..Len(ds) : ds[k] \in Digits \cup {"."}
    IN  [ok |-> wellformed,
         val |-> wellformed /\ ~neg
                   /\ \E k \in 1..Len(ds) : ds[k] \in Digits \ {"0"}]

\* base64 alphabet restricted to the letters the payloads use
B64Chars == {"A", "B", "C", "D", "J", "Q", "U"}
B64Val == [c \in B64Chars |-> CASE c = "A" -> 0 [] c = "B" -> 1 [] c = "C" -> 2
                                [] c = "D" -> 3 [] c = "J" -> 9 [] c = "Q" -> 16
                                [] c = "U" -> 20]

RECURSIVE B64Groups(_)
B64Groups(t) ==
    IF t = <<>> THEN <<>>
    ELSE LET n == B64Val[t[1]] * 262144 + B64Val[t[2]] * 4096
                    + B64Val[t[3]] * 64 + B64Val[t[4]]
         IN  <<n \div 65536, (n \div 256) % 256, n % 256>>
               \o B64Groups(SubSeq(t, 5, Len(t)))

\* base64.b64decode(t, validate=True) for payloads without '=' padding
b64decode(t) ==
    IF Len(t) % 4 = 0 /\ \A k \in 1..Len(t) : t[k] \in B64Chars
    THEN [ok |-> TRUE, bytes |-> B64Groups(t)]
    ELSE [ok |-> FALSE, bytes |-> <<>>]

\* str(Moodle_question): the dump of a record; all but the type is elided
PyStr(r) == <<"{", "'@type'", ":", " ", "'", r.type, "'", ",", " ", "...", "}">>

----------------------------------------------------------------------------
(* The Question classes.  A constructor returns [ok, q]; ok is FALSE when  *)
(* __init__ raises.  to_BBultra returns [ok, line] likewise.               *)

NoQ == [cls |-> "none", question |-> <<>>, files |-> <<>>, answers |-> <<>>,
        answer |-> Unset, tolerance |-> Unset,
        generalfeedback |-> Unset, graderinfo |-> Unset]

Raise == [ok |-> FALSE, q |-> NoQ]
Return(q) == [ok |-> TRUE, q |-> q]

LinkedFile(name) ==
    <<" ", "[", "[", " ", "linked", " ", "file", " ">> \o name \o <<" ", "]", "]">>

\* the list a list-or-single field is turned into by the isinstance test
AsList(f) == f.items

RECURSIVE AttachFiles(_, _)
\* the loop over files of Question.__init__, applied to the object q
AttachFiles(q, files) ==
    IF files = <<>> THEN Return(q)
    ELSE LET file == Head(files)
             dec == b64decode(file.text)
             q1 == [q EXCEPT !.files = IF file.encoding = "base64"
                                        THEN Append(@, <<file.name, dec.bytes>>)
                                        ELSE @,
                             !.question = @ \o LinkedFile(file.name)]
         IN  IF file.encoding = "base64" /\ ~dec.ok THEN Raise
             ELSE AttachFiles(q1, Tail(files))

\* Question.__init__
QuestionInit(cls, r) ==
    IF r.questiontext.text = Absent THEN Raise
    ELSE AttachFiles([NoQ EXCEPT !.cls = cls,
                                 !.question = cleanstring(r.questiontext.text,
                                                          r.questiontext.format)],
                     IF r.questiontext.file.kind = "absent" THEN <<>>
                     ELSE AsList(r.questiontext.file))

Description(r) == QuestionInit("Description", r)

Malformed(r) == [NoQ EXCEPT !.cls = "Malformed", !.question = PyStr(r)]

\* iterating a list-or-single field without the isinstance test: a missing
\* key raises KeyError, a single mapping iterates over its keys and the
\* subscript of a key raises TypeError
Iterable(f) == f.kind = "list"

MatchingInit(base, r) ==
    LET sqs == r.subquestion.items
    IN  IF ~base.ok THEN Raise
        ELSE IF ~Iterable(r.subquestion) THEN Raise
        ELSE IF \E k \in 1..Len(sqs) : sqs[k].text = Absent \/ sqs[k].answertext = Absent
             THEN Raise
        ELSE Return([base.q EXCEPT !.answers =
                 [k \in 1..Len(sqs) |-> <<cleanstring(sqs[k].text, sqs[k].format),
                                          cleanstring(sqs[k].answertext, sqs[k].format)>>]])

\* Matching.__init__: super().__init__, then the rest
Matching(r) == MatchingInit(QuestionInit("Matching", r), r)

Correct == <<"correct">>
Incorrect == <<"incorrect">>

MultiChoiceInit(base, r) ==
    LET as == r.answer.items
    IN  IF ~base.ok THEN Raise
        ELSE IF ~Iterable(r.answer) THEN Raise
        ELSE IF \E k \in 1..Len(as) : as[k].text = Absent \/ ~PyFloatPositive(as[k].fraction).ok
             THEN Raise
        ELSE Return([base.q EXCEPT !.answers =
                 [k \in 1..Len(as) |-> <<cleanstring(as[k].text, as[k].format),
                                         IF PyFloatPositive(as[k].fraction).val
                                         THEN Correct ELSE Incorrect>>]])

\* MultiChoice.__init__: super().__init__, then the rest
MultiChoice(r) == MultiChoiceInit(QuestionInit("MultiChoice", r), r)

EssayInit(base, r) ==
    IF ~base.ok THEN Raise
    ELSE IF r.generalfeedback.text = Absent \/ r.graderinfo.text = Absent THEN Raise
    ELSE Return([base.q EXCEPT
             !.generalfeedback = cleanstring(r.generalfeedback.text, r.generalfeedback.format),
             !.graderinfo = cleanstring(r.graderinfo.text, r.graderinfo.format)])

\* Essay.__init__: super().__init__, then the rest
Essay(r) == EssayInit(QuestionInit("Essay", r), r)

LBrack == <<"$", "$", "\\", "lbrack", "$", "$">>
RBrack == <<"$", "$", "\\", "rbrack", "$", "$">>

\* the two replace calls of Cloze.__init__ and ShortAnswer.__init__
EscapeBrackets(s) == Replace(Replace(s, <<"[">>, LBrack), <<"]">>, RBrack)

variables == <<"a", "b", "c", "d", "e", "f", "g", "h", "i", "j">>

\* match.split(":")[2].split('=')[1].split('~')[0].split('#')[0]
ClozeAnswer(match) ==
    LET p1 == Split(match, <<":">>)
        p2 == Split(p1[3], <<"=">>)
    IN  IF Len(p1) < 3 THEN [ok |-> FALSE, answer |-> <<>>]
        ELSE IF Len(p2) < 2 THEN [ok |-> FALSE, answer |-> <<>>]
        ELSE [ok |-> TRUE,
              answer |-> Split(Split(p2[2], <<"~">>)[1], <<"#">>)[1]]

RECURSIVE ClozeLoop(_, _)
\* the loop over candidates of Cloze.__init__
ClozeLoop(q, candidates) ==
    IF candidates = <<>> THEN Return(q)
    ELSE LET match == Head(candidates)
             a == ClozeAnswer(match)
             n == Len(q.answers) + 1
         IN  IF ~a.ok \/ n > Len(variables) THEN Raise
             ELSE ClozeLoop(
                    [q EXCEPT !.answers = Append(@, <<<<variables[n]>>, a.answer>>),
                              !.question = Replace(@, <<"{">> \o match \o <<"}">>,
                                                   <<"[", variables[n], "]">>)],
                    Tail(candidates))

ClozeInit(base) ==
    IF ~base.ok THEN Raise
    ELSE ClozeLoop([base.q EXCEPT !.question = EscapeBrackets(@)],
                   FindAll(EscapeBrackets(base.q.question), <<"{">>, <<"}">>))

\* Cloze.__init__: super().__init__, then the rest
Cloze(r) == ClozeInit(QuestionInit("Cloze", r))

\* the answers whose int(@fraction) is 100, in order
FullCredit(as) == SelectSeq(as, LAMBDA a : PyInt(a.fraction).val = 100)

\* reading @fraction, text and @format of every answer raises nothing
AnswersReadable(as) ==
    \A k \in 1..Len(as) :
        /\ PyInt(as[k].fraction).ok
        /\ PyInt(as[k].fraction).val = 100 => as[k].text # Absent

ShortAnswerInit(base, r) ==
    LET as == AsList(r.answer)
        full == FullCredit(as)
    IN  IF ~base.ok THEN Raise
        ELSE IF r.answer.kind = "absent" THEN Raise
        ELSE IF ~AnswersReadable(as) THEN Raise
        ELSE Return([base.q EXCEPT
                 !.question = EscapeBrackets(@),
                 !.answers = [k \in 1..Len(full) |-> cleanstring(full[k].text, full[k].format)]])

\* ShortAnswer.__init__: super().__init__, then the rest
ShortAnswer(r) == ShortAnswerInit(QuestionInit("ShortAnswer", r), r)

TrueFalseInit(base, r) ==
    LET as == AsList(r.answer)
        full == FullCredit(as)
    IN  IF ~base.ok THEN Raise
        ELSE IF r.answer.kind = "absent" THEN Raise
        ELSE IF ~AnswersReadable(as) THEN Raise
        ELSE IF full = <<>> THEN Return(base.q)
        ELSE Return([base.q EXCEPT
                 !.answer = cleanstring(full[Len(full)].text, full[Len(full)].format)])

\* TrueFalse.__init__: super().__init__, then the rest
TrueFalse(r) == TrueFalseInit(QuestionInit("TrueFalse", r), r)

NumericalInit(base, r) ==
    LET as == AsList(r.answer)
        full == FullCredit(as)
    IN  IF ~base.ok THEN Raise
        ELSE IF r.answer.kind = "absent" THEN Raise
        ELSE IF ~AnswersReadable(as) THEN Raise
        ELSE IF \E k \in 1..Len(full) : full[k].tolerance = Absent THEN Raise
        ELSE IF full = <<>> THEN Return(base.q)
        ELSE Return([base.q EXCEPT
                 !.answer = cleanstring(full[Len(full)].text, full[Len(full)].format),
                 !.tolerance = cleanstring(full[Len(full)].tolerance, full[Len(full)].format)])

\* Numerical.__init__: super().__init__, then the rest
Numerical(r) == NumericalInit(QuestionInit("Numerical", r), r)

Tab == <<"\t">>

RECURSIVE PairFields(_)
\* "\t" + first + "\t" + second for every pair
PairFields(ps) ==
    IF ps = <<>> THEN <<>>
    ELSE Tab \o Head(ps)[1] \o Tab \o Head(ps)[2] \o PairFields(Tail(ps))

RECURSIVE BlankFields(_)
\* "\t" + variable + "\t" + answer + "\t" for every blank
BlankFields(ps) ==
    IF ps = <<>> THEN <<>>
    ELSE Tab \o Head(ps)[1] \o Tab \o Head(ps)[2] \o Tab \o BlankFields(Tail(ps))

RECURSIVE TabFields(_)
\* "\t" + answer for every answer
TabFields(xs) ==
    IF xs = <<>> THEN <<>> ELSE Tab \o Head(xs) \o TabFields(Tail(xs))

NoLine == [ok |-> FALSE, line |-> <<>>]
Line(l) == [ok |-> TRUE, line |-> l]

\* Cloze.to_BBultra: the else branch reads the local name answer, which is
\* bound only by the for loop of the other branch (UnboundLocalError)
ClozeToBBultra(q) ==
    IF Len(q.answers) > 1
    THEN Line(<<"FIB_PLUS">> \o Tab \o q.question \o BlankFields(q.answers))
    ELSE NoLine

\* TrueFalse.to_BBultra: self.answer exists only if __init__ assigned it
TrueFalseToBBultra(q) ==
    IF q.answer = Unset THEN NoLine
    ELSE Line(<<"TF">> \o Tab \o q.question \o Tab \o q.answer)

\* Numerical.to_BBultra
NumericalToBBultra(q) ==
    IF q.answer = Unset \/ q.tolerance = Unset THEN NoLine
    ELSE Line(<<"NUM">> \o Tab \o q.question \o Tab \o q.answer \o Tab \o q.tolerance)

\* to_BBultra, dispatched on the class of q
to_BBultra(q) ==
    CASE q.cls = "Matching" ->
           Line(<<"MAT">> \o Tab \o q.question \o PairFields(q.answers))
      [] q.cls = "MultiChoice" ->
           Line(<<"MC">> \o Tab \o q.question \o PairFields(q.answers))
      [] q.cls = "Essay" ->
           Line(<<"ESS">> \o Tab \o q.question
                  \o (IF Len(q.generalfeedback) > 0 THEN Tab \o q.generalfeedback ELSE <<>>)
                  \o (IF Len(q.graderinfo) > 0 THEN Tab \o q.graderinfo ELSE <<>>))
      [] q.cls = "Cloze" -> ClozeToBBultra(q)
      [] q.cls = "ShortAnswer" ->
           Line(<<"FIB">> \o Tab \o q.question \o <<" ", "[", "a", "]">> \o TabFields(q.answers))
      [] q.cls = "TrueFalse" -> TrueFalseToBBultra(q)
      [] q.cls = "Numerical" -> NumericalToBBultra(q)
      [] OTHER -> Line(q.question)

\* the type tags main dispatches on, other than "category"
KnownTypes == {"cloze", "description", "essay", "matching", "multichoice",
               "numerical", "shortanswer", "truefalse"}

\* the constructor main calls for a record of a known type
Construct(r) ==
    CASE r.type = "cloze" -> Cloze(r)
      [] r.type = "description" -> Description(r)
      [] r.type = "essay" -> Essay(r)
      [] r.type = "matching" -> Matching(r)
      [] r.type = "multichoice" -> MultiChoice(r)
      [] r.type = "numerical" -> Numerical(r)
      [] r.type = "shortanswer" -> ShortAnswer(r)
      [] r.type = "truefalse" -> TrueFalse(r)

----------------------------------------------------------------------------
(* main: buckets, flush and the loop over the records.                     *)
(* A bucket entry is [q, src]: the Question object and, as history, the    *)
(* position in dict of the record it was made from.  An entry of fs is one *)
(* file written: its path and data, and as history the positions of the    *)
(* records its lines come from (srcs) and the loop position at the time of *)
(* the flush (by; Len(dict) + 1 for the flush after the loop).             *)

dirname == <<"output", "/">>

TopPrefix == <<"$", "c", "o", "u", "r", "s", "e", "$", "/", "t", "o", "p", "/">>

\* questions[key], or the empty list when the key is not in the dict
BucketOf(qs, key) ==
    LET K == {k \in 1..Len(qs) : qs[k].qtype = key}
    IN  IF K = {} THEN <<>> ELSE qs[CHOOSE k \in K : TRUE].qs

\* if not key in questions: questions[key] = []; questions[key].append(e)
AddQuestion(qs, key, e) ==
    IF \E k \in 1..Len(qs) : qs[k].qtype = key
    THEN [k \in 1..Len(qs) |->
            IF qs[k].qtype = key THEN [qs[k] EXCEPT !.qs = Append(@, e)] ELSE qs[k]]
    ELSE Append(qs, [qtype |-> key, qs |-> <<e>>])

\* the except clause filing the dump under the record's own type tag
ExceptClauseOwnKey(qs, r, i) ==
    AddQuestion(qs, r.type, [q |-> Malformed(r), src |-> i])

\* the except clause of the loop
ExceptClause(qs, r, i) ==
    AddQuestion(qs, "*malformed*", [q |-> Malformed(r), src |-> i])

rootname(cat, qtype) == dirname \o Replace(cat, <<"/">>, <<"_">>) \o <<"_", qtype>>

RECURSIVE FileOps(_, _, _, _)
FileOps(files, bi, qi, fi) ==
    IF fi > Len(files) THEN <<>>
    ELSE <<[op |-> "bin", bi |-> bi, qi |-> qi, fi |-> fi]>> \o FileOps(files, bi, qi, fi + 1)

RECURSIVE QuestionOps(_, _, _)
QuestionOps(b, bi, qi) ==
    IF qi > Len(b.qs) THEN <<[op |-> "txt", bi |-> bi, qi |-> 0, fi |-> 0]>>
    ELSE <<[op |-> "line", bi |-> bi, qi |-> qi, fi |-> 0]>>
           \o FileOps(b.qs[qi].q.files, bi, qi, 1)
           \o QuestionOps(b, bi, qi + 1)

RECURSIVE BucketOps(_, _)
\* the steps of write_questions_to_file in program order: per bucket, per
\* question its to_BBultra call and the writes of writefiles, then write_text
BucketOps(qs, bi) ==
    IF bi > Len(qs) THEN <<>>
    ELSE QuestionOps(qs[bi], bi, 1) \o BucketOps(qs, bi + 1)

\* number of file writes a flush of qs attempts when nothing raises
IOOps(qs) == Cardinality({k \in 1..Len(BucketOps(qs, 1)) : BucketOps(qs, 1)[k].op # "line"})

RECURSIVE RunOps(_, _, _, _, _, _, _, _, _, _)
\* runs the steps ops[k..]; the n-th file write raises OSError (n = 0: none)
RunOps(qs, cat, by, ops, k, out, srcs, writes, count, n) ==
    IF k > Len(ops) THEN [ok |-> TRUE, writes |-> writes]
    ELSE LET o == ops[k]
             b == qs[o.bi]
             root == rootname(cat, b.qtype)
         IN  IF o.op = "line"
             THEN LET l == to_BBultra(b.qs[o.qi].q)
                  IN  IF ~l.ok THEN [ok |-> FALSE, writes |-> writes]
                      ELSE RunOps(qs, cat, by, ops, k + 1, out \o l.line \o <<"\n">>,
                                  Append(srcs, b.qs[o.qi].src), writes, count, n)
             ELSE IF count + 1 = n THEN [ok |-> FALSE, writes |-> writes]
             ELSE IF o.op = "bin"
             THEN LET file == b.qs[o.qi].q.files[o.fi]
                  IN  RunOps(qs, cat, by, ops, k + 1, out, srcs,
                             Append(writes, [path |-> root \o <<"_">> \o file[1],
                                             kind |-> "bin", text |-> <<>>,
                                             bytes |-> file[2],
                                             srcs |-> <<b.qs[o.qi].src>>,
                                             cat |-> cat, qtype |-> b.qtype, by |-> by]),
                             count + 1, n)
             ELSE RunOps(qs, cat, by, ops, k + 1, <<>>, <<>>,
                         Append(writes, [path |-> root \o <<".txt">>,
                                         kind |-> "txt", text |-> out,
                                         bytes |-> <<>>, srcs |-> srcs,
                                         cat |-> cat, qtype |-> b.qtype, by |-> by]),
                         count + 1, n)

\* write_questions_to_file(questions, category, dirname): [ok, writes].
\* category.replace raises AttributeError for None as soon as the loop over
\* the buckets runs once.
write_questions_to_file(qs, cat, by, n) ==
    IF qs = <<>> THEN [ok |-> TRUE, writes |-> <<>>]
    ELSE IF cat = NoneStr THEN [ok |-> FALSE, writes |-> <<>>]
    ELSE RunOps(qs, cat, by, BucketOps(qs, 1), 1, <<>>, <<>>, <<>>, 0, n)

\* category = question["category"]["text"].replace("$course$/top/", "")
CategoryName(r) ==
    IF r.category.text = Absent \/ r.category.text = NoneStr
    THEN [ok |-> FALSE, name |-> <<>>]
    ELSE [ok |-> TRUE, name |-> Replace(r.category.text, TopPrefix, <<>>)]

(* The records the input lists are made of *)

NoText == [text |-> Absent, format |-> "html"]

BaseRec(type) ==
    [type |-> type,
     category |-> [text |-> Absent],
     questiontext |-> [text |-> Absent, format |-> "html", file |-> NoField],
     answer |-> NoField,
     subquestion |-> NoField,
     generalfeedback |-> NoText,
     graderinfo |-> NoText]

Marker(name) == [BaseRec("category") EXCEPT !.category = [text |-> name]]

Ans(fraction, text) ==
    [fraction |-> fraction, format |-> "html", text |-> text, tolerance |-> <<"0">>]

SubQ(text, answertext) ==
    [text |-> text, format |-> "html", answertext |-> answertext]

FileDesc(name, encoding, text) == [name |-> name, encoding |-> encoding, text |-> text]

QText(text, fmt, file) == [text |-> text, format |-> fmt, file |-> file]

F100 == <<"1", "0", "0">>
F0 == <<"0">>
F33 == <<"3", "3", ".", "3">>

GoodFile == FileDesc(<<"f", ".", "png">>, "base64", <<"Q", "U", "J", "D">>)
BadFile == FileDesc(<<"g", ".", "png">>, "base64", <<"Q", "U", "J">>)
PlainFile == FileDesc(<<"h", ".", "txt">>, "none", <<"x">>)

ClozeOne == <<"Compute", " ", "{", "1", ":", "SA", ":", "=", "42", "#", "wrong", "}">>
ClozeTwo == <<"{", "1", ":", "SA", ":", "=", "4", "}", " ", "[", "x", "]", " ",
              "{", "1", ":", "NM", ":", "=", "5", "~", "6", "}">>
ClozeBad == <<"{", "x", "}">>
Bracketed == <<"a", "[", "1", "]", "\n", "b">>
Formula == <<"$", "x", "$">>

CatA == Marker(TopPrefix \o <<"A">>)
CatSlash == Marker(<<"A", "/", "B">>)
CatUnderscore == Marker(<<"A", "_", "B">>)
CatNoText == BaseRec("category")

TFGood == [BaseRec("truefalse") EXCEPT
             !.questiontext = QText(<<"q">>, "html", NoField),
             !.answer = List(<<Ans(F100, <<"true">>), Ans(F0, <<"false">>)>>)]
TFNoFull == [BaseRec("truefalse") EXCEPT
             !.questiontext = QText(<<"r">>, "html", NoField),
             !.answer = List(<<Ans(F0, <<"true">>), Ans(F0, <<"false">>)>>)]
MCSingle == [BaseRec("multichoice") EXCEPT
             !.questiontext = QText(Formula, "html", NoField),
             !.answer = Single(Ans(F100, <<"y">>))]
ClozeOneBlank == [BaseRec("cloze") EXCEPT
             !.questiontext = QText(ClozeOne, "html", NoField)]
ClozeTwoBlanks == [BaseRec("cloze") EXCEPT
             !.questiontext = QText(ClozeTwo, "html", NoField)]
Calculated == BaseRec("calculated")
DescrFile == [BaseRec("description") EXCEPT
             !.questiontext = QText(Bracketed, "moodle_auto_format", Single(GoodFile))]
SAGood == [BaseRec("shortanswer") EXCEPT
             !.questiontext = QText(Bracketed, "html", NoField),
             !.answer = Single(Ans(F100, <<"z">>))]

Catalogue == {CatA, CatSlash, CatUnderscore, CatNoText, TFGood, TFNoFull, MCSingle,
              ClozeOneBlank, ClozeTwoBlanks, Calculated, DescrFile, SAGood}

Init ==
    /\ \E n \in 0..MaxRecords : dict \in [1..n -> Catalogue]
    /\ idx = 1
    /\ questions = <<>>
    /\ category = NoneStr
    /\ fs = <<>>
    /\ pc = "loop"
    /\ rec = <<>> /\ obj = <<>> /\ line = <<>> /\ qpc = "off"
    /\ input = <<>> /\ format = "html" /\ output = <<>> /\ passes = 0

InLoop == pc = "loop" /\ idx <= Len(dict)

\* loop body, question["@type"] == "category"
StepCategory ==
    /\ InLoop
    /\ dict[idx].type = "category"
    /\ \E n \in 0..(IF category = NoneStr THEN 0 ELSE IOOps(questions)) :
         LET r == dict[idx]
             flushed == IF category = NoneStr
                        THEN [ok |-> TRUE, writes |-> <<>>]
                        ELSE write_questions_to_file(questions, category, idx, n)
             qs1 == IF category = NoneStr THEN questions ELSE <<>>
             name == CategoryName(r)
         IN  /\ fs' = fs \o flushed.writes
             /\ IF ~flushed.ok
                THEN /\ questions' = ExceptClause(questions, r, idx)
                     /\ category' = category
                ELSE IF ~name.ok
                THEN /\ questions' = ExceptClause(qs1, r, idx)
                     /\ category' = category
                ELSE /\ questions' = qs1
                     /\ category' = name.name
    /\ idx' = idx + 1
    /\ UNCHANGED <<dict, pc, qVars, textVars>>

\* loop body, one of the eight question types
StepQuestion ==
    /\ InLoop
    /\ dict[idx].type \in KnownTypes
    /\ LET r == dict[idx]
           c == Construct(r)
       IN  questions' = IF c.ok
                        THEN AddQuestion(questions, r.type, [q |-> c.q, src |-> idx])
                        ELSE ExceptClause(questions, r, idx)
    /\ idx' = idx + 1
    /\ UNCHANGED <<dict, category, fs, pc, qVars, textVars>>

\* loop body, the final else
StepUnsupported ==
    /\ InLoop
    /\ dict[idx].type \notin KnownTypes \cup {"category"}
    /\ questions' = AddQuestion(questions, "*unsupported*",
                                [q |-> Malformed(dict[idx]), src |-> idx])
    /\ idx' = idx + 1
    /\ UNCHANGED <<dict, category, fs, pc, qVars, textVars>>

\* write questions of final category, after the loop and outside the try
FinalFlush ==
    /\ pc = "loop"
    /\ idx = Len(dict) + 1
    /\ \E n \in 0..IOOps(questions) :
         LET flushed == write_questions_to_file(questions, category, idx, n)
         IN  /\ fs' = fs \o flushed.writes
             /\ pc' = IF flushed.ok THEN "done" ELSE "crashed"
    /\ UNCHANGED <<dict, idx, questions, category, qVars, textVars>>

Next == StepCategory \/ StepQuestion \/ StepUnsupported \/ FinalFlush

Spec == Init /\ [][Next]_vars

----------------------------------------------------------------------------
(* SpecText: _cleanstring applied to bounded texts, possibly again to its  *)
(* own result.                                                             *)

TextAlphabet == {"$", "x", "\n", "[", "\\"}

Texts(n) == UNION {[1..k -> TextAlphabet] : k \in 0..n}

InitText ==
    /\ input \in Texts(MaxTextLen)
    /\ format \in Formats
    /\ output = <<>>
    /\ passes = 0
    /\ dict = <<>> /\ idx = 0 /\ questions = <<>> /\ category = NoneStr
    /\ fs = <<>> /\ pc = "off"
    /\ rec = <<>> /\ obj = <<>> /\ line = <<>> /\ qpc = "off"

\* a first call of _cleanstring(input, format)
Clean ==
    /\ passes = 0
    /\ output' = cleanstring(input, format)
    /\ passes' = 1
    /\ UNCHANGED <<input, format, mainVars, qVars>>

\* _cleanstring called on text it returned before
CleanAgain ==
    /\ passes >= 1 /\ passes < MaxPasses
    /\ input' = output
    /\ output' = cleanstring(output, format)
    /\ passes' = passes + 1
    /\ UNCHANGED <<format, mainVars, qVars>>

NextText == Clean \/ CleanAgain

SpecText == InitText /\ [][NextText]_vars

----------------------------------------------------------------------------
(* SpecQ: one question constructed from a bounded record, then serialized. *)

SeqsUpTo(S, n) == UNION {[1..k -> S] : k \in 1..n}

ListOrSingle(S, n) ==
    {NoField} \cup {Single(m) : m \in S} \cup {List(ms) : ms \in SeqsUpTo(S, n)}

QTexts == {ClozeOne, ClozeTwo, ClozeBad, Bracketed, Formula, NoneStr, Absent}
FileDescs == {GoodFile, BadFile, PlainFile}
Answers == {Ans(F100, <<"true">>), Ans(F0, <<"false">>), Ans(F33, <<"y">>)}

\* a record of type t; its subquestions repeat the texts of its answers
QRec(t, txt, fmt, fl, an) ==
    [BaseRec(t) EXCEPT
       !.questiontext = QText(txt, fmt, fl),
       !.answer = an,
       !.subquestion = [kind |-> an.kind,
                        items |-> [k \in 1..Len(an.items) |->
                                     SubQ(an.items[k].text, an.items[k].text)]],
       !.generalfeedback = [text |-> <<"g">>, format |-> "html"],
       !.graderinfo = [text |-> NoneStr, format |-> "html"]]

InitQ ==
    /\ \E t \in KnownTypes, txt \in QTexts, fmt \in Formats,
          fl \in ListOrSingle(FileDescs, MaxFiles),
          an \in ListOrSingle(Answers, MaxAnswers) :
            rec = QRec(t, txt, fmt, fl, an)
    /\ obj = <<>> /\ line = <<>> /\ qpc = "new"
    /\ dict = <<>> /\ idx = 0 /\ questions = <<>> /\ category = NoneStr
    /\ fs = <<>> /\ pc = "off"
    /\ input = <<>> /\ format = "html" /\ output = <<>> /\ passes = 0

\* q = Cloze(question), q = Essay(question), ... as main calls them
Build ==
    /\ qpc = "new"
    /\ obj' = Construct(rec)
    /\ qpc' = IF Construct(rec).ok THEN "built" ELSE "failed"
    /\ UNCHANGED <<rec, line, mainVars, textVars>>

\* question.to_BBultra() as write_questions_to_file calls it
Serialize ==
    /\ qpc = "built"
    /\ line' = to_BBultra(obj.q)
    /\ qpc' = IF to_BBultra(obj.q).ok THEN "serialized" ELSE "raised"
    /\ UNCHANGED <<rec, obj, mainVars, textVars>>

NextQ == Build \/ Serialize

SpecQ == InitQ /\ [][NextQ]_vars

----------------------------------------------------------------------------
(* Properties *)

Processed == 1..(idx - 1)

\* the keys record k was appended under: in a bucket now, or in a bucket
\* that has been written to a text file since
KeysOf(k) ==
    {questions[b].qtype : b \in {b \in 1..Len(questions) :
         \E e \in 1..Len(questions[b].qs) : questions[b].qs[e].src = k}}
    \cup {fs[w].qtype : w \in {w \in 1..Len(fs) :
         fs[w].kind = "txt" /\ \E e \in 1..Len(fs[w].srcs) : fs[w].srcs[e] = k}}

Sentinels == {"*malformed*", "*unsupported*"}

FailsToConstruct(r) == r.type \in KnownTypes /\ ~Construct(r).ok

\* C1: a typed-question record whose construction fails adds exactly one
\* Malformed entry under the malformed key and changes no other bucket, the
\* category or the files; a record that constructs is appended under its own
\* type tag; and every step of the loop leaves the loop running on the next
\* record, so all records are processed.
C1_FailureIsolation ==
    [][ InLoop =>
          /\ pc' = "loop" /\ idx' = idx + 1 /\ dict' = dict
          /\ FailsToConstruct(dict[idx]) =>
               /\ BucketOf(questions', "*malformed*")
                    = Append(BucketOf(questions, "*malformed*"),
                             [q |-> Malformed(dict[idx]), src |-> idx])
               /\ \A key \in KnownTypes \cup {"*unsupported*"} :
                    BucketOf(questions', key) = BucketOf(questions, key)
               /\ category' = category /\ fs' = fs
          /\ (dict[idx].type \in KnownTypes /\ Construct(dict[idx]).ok) =>
               /\ BucketOf(questions', dict[idx].type)
                    = Append(BucketOf(questions, dict[idx].type),
                             [q |-> Construct(dict[idx]).q, src |-> idx])
               /\ \A key \in (KnownTypes \cup Sentinels) \ {dict[idx].type} :
                    BucketOf(questions', key) = BucketOf(questions, key)
      ]_vars

\* three records, the second malformed: all processed, the first and third
\* in the buckets of their types, the second alone under the malformed key
C1_Witness ==
    /\ Len(dict) = 3 /\ idx = 4
    /\ FailsToConstruct(dict[2])
    /\ dict[1].type \in KnownTypes /\ dict[3].type \in KnownTypes
    /\ KeysOf(1) = {dict[1].type} /\ KeysOf(3) = {dict[3].type}
    /\ KeysOf(2) = {"*malformed*"}
    /\ Len(BucketOf(questions, "*malformed*")) = 1

IsMarker(k) == dict[k].type = "category"

\* C2: every question written into a text file of category C comes from a
\* record that follows a marker naming C with no other marker in between.
C2_NoMixedCategories ==
    \A w \in 1..Len(fs) : fs[w].kind = "txt" =>
        \A e \in 1..Len(fs[w].srcs) :
            LET k == fs[w].srcs[e]
            IN  ~IsMarker(k) =>
                  \E m \in 1..(k - 1) :
                      /\ IsMarker(m)
                      /\ CategoryName(dict[m]).ok
                      /\ CategoryName(dict[m]).name = fs[w].cat
                      /\ \A j \in (m + 1)..(k - 1) : ~IsMarker(j)

\* a flush of the current buckets that raises, and the files it wrote first
FlushFails(n) ==
    /\ category # NoneStr \/ idx = Len(dict) + 1
    /\ ~write_questions_to_file(questions, category, idx, n).ok
    /\ fs' = fs \o write_questions_to_file(questions, category, idx, n).writes

\* C3: a flush that fails, at a category marker or after the loop, ends the
\* run: the run is crashed (so no later record is processed and the bucket
\* is never flushed again) and the buckets get no Malformed entry for it.
C3_FlushFailureFatal ==
    [][ \A n \in 0..IOOps(questions) :
          ( /\ pc = "loop"
            /\ idx = Len(dict) + 1 \/ (idx <= Len(dict) /\ IsMarker(idx))
            /\ idx' # idx \/ pc' # pc
            /\ FlushFails(n) )
          => (pc' = "crashed" /\ questions' = questions)
      ]_vars

\* C4: unsupported exactly for the unknown type tags, malformed exactly for
\* the known question types whose construction raised, never both, and never
\* a normal type key next to a sentinel key.
C4_SentinelKeys ==
    \A k \in Processed :
        /\ "*unsupported*" \in KeysOf(k)
             <=> dict[k].type \notin KnownTypes \cup {"category"}
        /\ "*malformed*" \in KeysOf(k) <=> FailsToConstruct(dict[k])
        /\ ~(Sentinels \subseteq KeysOf(k))
        /\ KeysOf(k) \cap Sentinels # {} => KeysOf(k) \cap KnownTypes = {}

\* a TrueFalse or Numerical record whose answers are readable and hold no
\* answer with fraction 100
NoFullCredit(r) ==
    /\ r.type \in {"truefalse", "numerical"}
    /\ r.questiontext.text # Absent
    /\ r.answer.kind # "absent"
    /\ AnswersReadable(AsList(r.answer))
    /\ FullCredit(AsList(r.answer)) = <<>>

\* C5: such a record fails to construct, is recorded under the malformed key
\* and never sits in a bucket whose flush crashes the run.
C5_NoFullCreditIsMalformed ==
    \A k \in Processed : NoFullCredit(dict[k]) =>
        /\ ~Construct(dict[k]).ok
        /\ KeysOf(k) = {"*malformed*"}
        /\ ~( /\ pc = "crashed"
              /\ \E b \in 1..Len(questions) : \E e \in 1..Len(questions[b].qs) :
                    /\ questions[b].qs[e].src = k
                    /\ ~to_BBultra(questions[b].qs[e].q).ok )

Contains(s, p) == \E i \in 1..Len(s) : MatchAt(s, p, i)

\* the normalized text of r holds exactly one group {weight:type:=answer...}
OneGroup(r) ==
    /\ r.type = "cloze"
    /\ r.questiontext.text \notin {Absent, NoneStr}
    /\ LET gs == FindAll(cleanstring(r.questiontext.text, r.questiontext.format),
                         <<"{">>, <<"}">>)
       IN  Len(gs) = 1 /\ ClozeAnswer(gs[1]).ok

GroupAnswer(r) ==
    ClozeAnswer(FindAll(cleanstring(r.questiontext.text, r.questiontext.format),
                        <<"{">>, <<"}">>)[1]).answer

\* C6: a constructed Cloze with exactly one answer group serializes to a
\* line with the placeholder [a] in the question field and the blank entry
\* a with the correct answer.
C6_ClozeOneBlankLine ==
    (qpc \in {"serialized", "raised"} /\ OneGroup(rec)) =>
        /\ line.ok
        /\ Contains(Split(line.line, Tab)[2], <<"[", "a", "]">>)
        /\ Contains(line.line, Tab \o <<"a">> \o Tab \o GroupAnswer(rec))

WrapField(f) == IF f.kind = "single" THEN List(f.items) ELSE f

\* r with every single mapping of a list-or-single field wrapped in a list
Wrapped(r) ==
    [r EXCEPT !.answer = WrapField(@),
              !.subquestion = WrapField(@),
              !.questiontext.file = WrapField(@)]

\* C7: the constructor gives the same result for a record and for the
\* record with its single mappings wrapped in one-element lists.
C7_SingleEqualsWrapped ==
    qpc \in {"built", "failed"} => obj = Construct(Wrapped(rec))

\* positions of s that are part of a placeholder [v] of Cloze
InPlaceholder(s, i) ==
    \E j \in {i - 2, i} : \E v \in 1..Len(variables) :
        MatchAt(s, <<"[", variables[v], "]">>, j)

\* C8: the text of a constructed Question holds no newline and no '[' or
\* ']' other than the placeholders Cloze puts in.
C8_TextIsClean ==
    qpc = "built" =>
        \A i \in 1..Len(obj.q.question) :
            /\ obj.q.question[i] # "\n"
            /\ obj.q.question[i] \in {"[", "]"} =>
                 (obj.q.cls = "Cloze" /\ InPlaceholder(obj.q.question, i))

DDx == <<"$", "$", "x", "$", "$">>

\* C9: html normalization of $$x$$ returns $$x$$ and not $$$$x$$$$.
C9_DoubleDollarKept ==
    (passes >= 1 /\ format = "html" /\ input = DDx) =>
        (output # DD \o DDx \o DD /\ output = DDx)

\* C10: two different flushes never write the same text file path.
C10_NoOverwrite ==
    \A v, w \in 1..Len(fs) :
        (fs[v].kind = "txt" /\ fs[w].kind = "txt" /\ fs[v].by # fs[w].by)
            => fs[v].path # fs[w].path

====
